---- MODULE Spec2Model ----
(***************************************************************************)
(* Model of the Dapp component: the wallet session, the balance poller and *)
(* the transfer lifecycle.                                                 *)
(*                                                                         *)
(* JavaScript runs one callback at a time, so every action below is one    *)
(* callback run to its next await: a user click, a wallet event, a timer   *)
(* tick, or the continuation of an async function after an RPC answer.     *)
(* The wallet, the node and the chain are the environment.  A read of the  *)
(* chain returns the value the chain holds when the answer is delivered.   *)
(*                                                                         *)
(* Spec is the session and its poller: connecting (also twice), wallet     *)
(* events, teardown, failing reads.  SpecTx adds transferTokens to a       *)
(* session that stays mounted; calls of transferTokens may overlap, as the *)
(* Transfer form stays rendered while a call is in flight.  SpecUi is      *)
(* SpecTx with the dismissal of the network error.                         *)
(***************************************************************************)
EXTENDS Integers, FiniteSets, Sequences, TLC

(* ---- bounds ---- *)
MaxConnects == 2      \* connectWallet() calls in flight or completed, in Spec
MaxTxConnects == 1    \* the same, in SpecTx
MaxTransfers == 2     \* transferTokens() calls in flight at once
MaxInFlight == 1      \* reads of one kind awaiting the node's answer
MaxAmount == 1        \* largest amount a transfer is called with

(* ---- program constants ---- *)
HARDHAT_NETWORK_ID == "31337"
ERROR_CODE_TX_REJECTED_BY_USER == 4001

(* ---- values ---- *)
UNDEF == "undefined"
NULL == "null"
Addresses == {"0xAA", "0xBB"}
NetworkIds == {HARDHAT_NETWORK_ID, "1"}
NetworkErrorMessage == "Please connect Metamask to Localhost:8545"
TokenInfo == "Foo (FOO)"             \* the object {name, symbol}
NoTimer == 0                         \* pollDataInterval.current === undefined
TimerIds == 1..MaxConnects           \* every live timer was started by initialize
TxIds == 1..MaxTransfers
Hashes == <<"0xh1", "0xh2", "0xh3", "0xh4", "0xh5", "0xh6">>
Recipients == {"0xCC"}               \* where the Transfer form sends tokens to
InitialChain == [a \in Addresses \cup Recipients |-> IF a = "0xAA" THEN 2 ELSE 0]

\* balance holds undefined, null or a BigNumber object
BalUndefined == [kind |-> "undefined", n |-> 0]
BalNull == [kind |-> "null", n |-> 0]
BigNumber(n) == [kind |-> "BigNumber", n |-> n]
IsNumber(b) == b.kind = "BigNumber"

\* errors an awaited wallet/node call can reject with
UserRejected == "User denied transaction signature"
RpcError == "Internal JSON-RPC error"
TransactionFailed == "Transaction failed"
RejectErrors == {UserRejected, RpcError}
ErrorCode(error) == IF error = UserRejected THEN 4001
                    ELSE IF error = RpcError THEN -32603
                    ELSE 0

Truthy(v) == v \notin {UNDEF, NULL}

VARIABLES
    token,              \* token.current: UNDEF or "Contract"
    pollDataInterval,   \* pollDataInterval.current: NoTimer or a timer id
    myAddress,          \* myAddress.current
    tokenData, balance, txBeingSent, transactionError, networkError,
    mounted,            \* the component is mounted (state updates take effect)
    view,               \* the view chosen by the last render
    timers,             \* interval timers that are alive
    tokenReads,         \* getTokenData calls awaiting name() and symbol()
    pollReads,          \* per address: updateBalance calls of the poller awaiting balanceOf
    networkVersion,     \* window.ethereum.networkVersion
    selectedAccount,    \* the wallet's account exposed to the page
    handlers,           \* accountsChanged/networkChanged handler pairs registered
    connecting,         \* connectWallet calls awaiting enable()
    transfers,          \* transferTokens calls, by id
    chain,              \* on-chain token balances
    last                \* the callback that ran last

comp == <<token, pollDataInterval, myAddress, tokenData, balance, txBeingSent,
          transactionError, networkError, mounted, view, timers, tokenReads,
          pollReads>>
env == <<networkVersion, selectedAccount, handlers, connecting, transfers, chain>>
vars == <<comp, env, last>>

\* the component as one value, so that the functions of the component are operators on it
St == [token |-> token, pollDataInterval |-> pollDataInterval, myAddress |-> myAddress,
       tokenData |-> tokenData, balance |-> balance, txBeingSent |-> txBeingSent,
       transactionError |-> transactionError, networkError |-> networkError,
       mounted |-> mounted, view |-> view, timers |-> timers, tokenReads |-> tokenReads,
       pollReads |-> pollReads]

Becomes(s) ==
    /\ token' = s.token
    /\ pollDataInterval' = s.pollDataInterval
    /\ myAddress' = s.myAddress
    /\ tokenData' = s.tokenData
    /\ balance' = s.balance
    /\ txBeingSent' = s.txBeingSent
    /\ transactionError' = s.transactionError
    /\ networkError' = s.networkError
    /\ mounted' = s.mounted
    /\ view' = s.view
    /\ timers' = s.timers
    /\ tokenReads' = s.tokenReads
    /\ pollReads' = s.pollReads

(* ---- rendering ---- *)
\* (a slip: the main view is shown without waiting for the token data)
Render_IgnoresTokenData(s) ==
    IF ~Truthy(s.myAddress) THEN "ConnectWallet"
    ELSE IF s.balance.kind # "BigNumber" THEN "Loading"
    ELSE "Dapp"

\* the render function's choice of view (NoWalletDetected is left out:
\* window.ethereum is defined in every run modelled here)
Render(s) ==
    IF ~Truthy(s.myAddress) THEN "ConnectWallet"
    ELSE IF ~Truthy(s.tokenData) \/ s.balance.kind # "BigNumber" THEN "Loading"
    ELSE "Dapp"

\* a useState setter: ignored once unmounted; re-renders unless React bails
\* out because the value is identical (objects are always new)
SetState(s, field, v, isObject) ==
    IF ~s.mounted THEN s
    ELSE IF ~isObject /\ s[field] = v THEN s
    ELSE LET t == [s EXCEPT ![field] = v] IN [t EXCEPT !.view = Render(t)]

setTokenData(s, v) == SetState(s, "tokenData", v, Truthy(v))
setBalance(s, b) == SetState(s, "balance", b, IsNumber(b))
setTxBeingSent(s, v) == SetState(s, "txBeingSent", v, FALSE)
setTransactionError(s, v) == SetState(s, "transactionError", v, Truthy(v))
setNetworkError(s, v) == SetState(s, "networkError", v, FALSE)

(* ---- the component's functions ---- *)
\* (a slip: dismissing the transaction error clears the network error too)
dismissTransactionError_ClearsBoth(s) == setNetworkError(setTransactionError(s, NULL), NULL)

dismissTransactionError(s) == setTransactionError(s, NULL)

dismissNetworkError(s) == setNetworkError(s, NULL)

resetState(s) ==
    setNetworkError(setTransactionError(setTxBeingSent(setBalance(setTokenData(s, NULL),
        BalNull), NULL), NULL), NULL)

checkNetwork(nv) == nv = HARDHAT_NETWORK_ID

\* (a slip: a cleared handle cancels every interval of the page)
stopPollingData_CancelsAll(s) ==
    [s EXCEPT !.timers = IF s.pollDataInterval = NoTimer THEN {} ELSE @ \ {s.pollDataInterval},
              !.pollDataInterval = NoTimer]

\* clearInterval of an undefined or already cleared handle does nothing
stopPollingData(s) ==
    [s EXCEPT !.timers = @ \ {s.pollDataInterval}, !.pollDataInterval = NoTimer]

\* updateBalance up to its await: the read is issued for the address held now
updateBalance(s) ==
    IF s.token = UNDEF \/ s.myAddress = UNDEF THEN s     \* the call throws
    ELSE [s EXCEPT !.pollReads[s.myAddress] = @ + 1]

\* setInterval hands out an id no live timer has
FreshTimer(s) == CHOOSE i \in TimerIds : i \notin s.timers /\ \A j \in 1..(i-1) : j \in s.timers

startPollingData(s) ==
    LET id == FreshTimer(s) IN
    updateBalance([s EXCEPT !.pollDataInterval = id, !.timers = @ \cup {id}])

initializeEthers(s) == [s EXCEPT !.token = "Contract"]

\* getTokenData up to its first await
getTokenData(s) == [s EXCEPT !.tokenReads = @ + 1]

\* (a slip: the contract client is not constructed)
initialize_ForgetsEthers(s, userAddress) ==
    startPollingData(getTokenData([s EXCEPT !.myAddress = userAddress]))

initialize(s, userAddress) ==
    startPollingData(getTokenData(initializeEthers([s EXCEPT !.myAddress = userAddress])))

\* (a slip: the network is checked after the session was initialized)
connectWallet_InitializesFirst(s, address, nv) ==
    IF ~checkNetwork(nv) THEN setNetworkError(initialize(s, address), NetworkErrorMessage)
    ELSE initialize(s, address)

\* connectWallet after enable() has resolved with myAddress, up to the
\* registration of the handlers
connectWallet(s, address, nv) ==
    IF ~checkNetwork(nv) THEN setNetworkError(s, NetworkErrorMessage)
    ELSE initialize(s, address)

accountsChangedHandler(s, newAddress) ==
    LET t == stopPollingData(s) IN
    IF newAddress = UNDEF THEN resetState(t) ELSE initialize(t, newAddress)

networkChangedHandler(s) == resetState(stopPollingData(s))

\* the wallet calls every registered handler in turn
RECURSIVE EmitAccountsChanged(_, _, _)
EmitAccountsChanged(s, newAddress, n) ==
    IF n = 0 THEN s
    ELSE EmitAccountsChanged(accountsChangedHandler(s, newAddress), newAddress, n - 1)

RECURSIVE EmitNetworkChanged(_, _)
EmitNetworkChanged(s, n) ==
    IF n = 0 THEN s ELSE EmitNetworkChanged(networkChangedHandler(s), n - 1)

\* (a slip: no finally clause, the pending hash survives an error)
transferCatch_KeepsPending(s, error) ==
    IF ErrorCode(error) = ERROR_CODE_TX_REJECTED_BY_USER THEN s
    ELSE setTransactionError(s, error)

\* (a slip: the catch clause records every error, also code 4001)
transferCatch_RecordsEvery(s, error) == setTxBeingSent(setTransactionError(s, error), NULL)

\* transferTokens: the catch clause followed by the finally clause
transferCatch(s, error) ==
    LET t == IF ErrorCode(error) = ERROR_CODE_TX_REJECTED_BY_USER THEN s
             ELSE setTransactionError(s, error)
    IN setTxBeingSent(t, NULL)

\* (a slip: no finally clause, the pending hash survives a confirmation)
transferFinally_KeepsPending(s) == s

\* transferTokens: normal completion of the try block, then the finally clause
transferFinally(s) == setTxBeingSent(s, NULL)

(* ---- initial state ---- *)
IdleTransfer == [pc |-> "idle", to |-> UNDEF, amount |-> 0, addr |-> UNDEF, shown |-> 0]

Init ==
    /\ token = UNDEF
    /\ pollDataInterval = NoTimer
    /\ myAddress = UNDEF
    /\ tokenData = UNDEF
    /\ balance = BalUndefined
    /\ txBeingSent = UNDEF
    /\ transactionError = UNDEF
    /\ networkError = UNDEF
    /\ mounted = TRUE
    /\ view = "ConnectWallet"
    /\ timers = {}
    /\ tokenReads = 0
    /\ pollReads = [a \in Addresses |-> 0]
    /\ networkVersion \in NetworkIds
    /\ selectedAccount = UNDEF
    /\ handlers = 0
    /\ connecting = 0
    /\ transfers = [k \in TxIds |-> IdleTransfer]
    /\ chain = InitialChain
    /\ last = [op |-> "init", outcome |-> "none", k |-> 0, shown |-> 0, amount |-> 0,
               addr |-> UNDEF]

Label(op) == [op |-> op, outcome |-> "none", k |-> 0, shown |-> 0, amount |-> 0, addr |-> UNDEF]
Did(op) == last' = Label(op)

\* transferTokens returns: its slot is free again and how it ended is remembered
Settled(k, outcome) ==
    /\ last' = [op |-> "settled", outcome |-> outcome, k |-> k, shown |-> transfers[k].shown,
                amount |-> transfers[k].amount, addr |-> transfers[k].addr]
    /\ transfers' = [transfers EXCEPT ![k] = IdleTransfer]

(* ---- connecting ---- *)
\* the user clicks Connect on the ConnectWallet view
ConnectWalletCall(max) ==
    /\ mounted /\ view = "ConnectWallet"
    /\ connecting + handlers < max
    /\ connecting' = connecting + 1
    /\ Did("other")
    /\ UNCHANGED <<comp, networkVersion, selectedAccount, handlers, transfers, chain>>

\* enable() resolves: connectWallet runs to its end
EnableResolve(a) ==
    /\ connecting > 0
    /\ selectedAccount \in {UNDEF, a}
    /\ tokenReads < MaxInFlight /\ pollReads[a] < MaxInFlight
    /\ connecting' = connecting - 1
    /\ selectedAccount' = a
    /\ Becomes(connectWallet(St, a, networkVersion))
    /\ IF checkNetwork(networkVersion)
       THEN handlers' = handlers + 1 /\ Did("connected")
       ELSE handlers' = handlers /\ Did("networkMismatch")
    /\ UNCHANGED <<networkVersion, transfers, chain>>

\* enable() rejects (the user declines): connectWallet throws at its first line
EnableReject ==
    /\ connecting > 0
    /\ connecting' = connecting - 1
    /\ Did("other")
    /\ UNCHANGED <<comp, networkVersion, selectedAccount, handlers, transfers, chain>>

(* ---- wallet events ---- *)
\* the wallet exposes another account, or none any more, and tells the page
AccountsChanged(newAddress) ==
    /\ newAddress # selectedAccount
    \* every registered handler issues its reads: the event is taken when none
    \* of them is in flight, or when they stay within the bound
    /\ newAddress # UNDEF =>
          /\ tokenReads = 0 \/ tokenReads + handlers <= MaxInFlight
          /\ pollReads[newAddress] = 0 \/ pollReads[newAddress] + handlers <= MaxInFlight
    /\ selectedAccount' = newAddress
    /\ Becomes(EmitAccountsChanged(St, newAddress, handlers))
    /\ Did(IF handlers = 0 THEN "other"
           ELSE IF newAddress = UNDEF THEN "accountRemoved" ELSE "accountSwitched")
    /\ UNCHANGED <<networkVersion, handlers, connecting, transfers, chain>>

\* the wallet moves to another network and tells the page
NetworkChanged(nv) ==
    /\ nv # networkVersion
    /\ networkVersion' = nv
    /\ Becomes(EmitNetworkChanged(St, handlers))
    /\ Did(IF handlers = 0 THEN "other" ELSE "networkChanged")
    /\ UNCHANGED <<selectedAccount, handlers, connecting, transfers, chain>>

\* the cleanup of the useEffect
Teardown ==
    /\ mounted
    /\ Becomes([stopPollingData(St) EXCEPT !.mounted = FALSE])
    /\ Did("teardown")
    /\ UNCHANGED env

(* ---- the poller ---- *)
\* a live interval timer fires
Tick(t) ==
    /\ t \in timers
    /\ myAddress # UNDEF /\ pollReads[myAddress] < MaxInFlight
    /\ Becomes(updateBalance(St))
    /\ Did("other")
    /\ UNCHANGED env

\* balanceOf answers a read of the poller: updateBalance sets the balance
PollReadReturn(a) ==
    /\ pollReads[a] > 0
    /\ Becomes(setBalance([St EXCEPT !.pollReads[a] = @ - 1], BigNumber(chain[a])))
    /\ Did("other")
    /\ UNCHANGED env

\* (a slip: a failed read cancels the interval)
PollReadFail_StopsPoller(a) ==
    /\ pollReads[a] > 0
    /\ Becomes(stopPollingData([St EXCEPT !.pollReads[a] = @ - 1]))
    /\ Did("pollReadFailed")
    /\ UNCHANGED env

\* balanceOf rejects: updateBalance's promise rejects and nobody handles it
PollReadFail(a) ==
    /\ pollReads[a] > 0
    /\ Becomes([St EXCEPT !.pollReads[a] = @ - 1])
    /\ Did("pollReadFailed")
    /\ UNCHANGED env

(* ---- getTokenData ---- *)
\* name() and symbol() have both answered: getTokenData sets the token data
TokenDataReturn ==
    /\ tokenReads > 0
    /\ Becomes(setTokenData([St EXCEPT !.tokenReads = @ - 1], TokenInfo))
    /\ Did("other")
    /\ UNCHANGED env

\* name() or symbol() rejects: getTokenData's promise rejects and nobody handles it
TokenDataFail ==
    /\ tokenReads > 0
    /\ Becomes([St EXCEPT !.tokenReads = @ - 1])
    /\ Did("other")
    /\ UNCHANGED env

(* ---- transferTokens ---- *)
FirstIdle == CHOOSE k \in TxIds : transfers[k].pc = "idle" /\ \A j \in 1..(k-1) : transfers[j].pc # "idle"

\* the Transfer form is submitted: transferTokens runs up to its first await
TransferTokens(to, amount) ==
    /\ mounted /\ view = "Dapp" /\ IsNumber(balance) /\ balance.n > 0
    /\ \E k \in TxIds : transfers[k].pc = "idle"
    /\ Becomes(dismissTransactionError(St))
    /\ transfers' = [transfers EXCEPT ![FirstIdle] =
            [pc |-> "submit", to |-> to, amount |-> amount, addr |-> UNDEF, shown |-> balance.n]]
    /\ Did("other")
    /\ UNCHANGED <<networkVersion, selectedAccount, handlers, connecting, chain>>

\* token.transfer resolves with the transaction: its hash is shown as pending
SubmitOk(k) ==
    /\ transfers[k].pc = "submit"
    /\ selectedAccount # UNDEF
    /\ Becomes(setTxBeingSent(St, Hashes[k]))
    /\ transfers' = [transfers EXCEPT ![k] = [@ EXCEPT !.pc = "wait", !.addr = selectedAccount]]
    /\ Did("other")
    /\ UNCHANGED <<networkVersion, selectedAccount, handlers, connecting, chain>>

\* token.transfer rejects
SubmitFail(k, error) ==
    /\ transfers[k].pc = "submit"
    /\ Becomes(transferCatch(St, error))
    /\ Settled(k, IF ErrorCode(error) = ERROR_CODE_TX_REJECTED_BY_USER
                  THEN "rejected" ELSE "submitFailed")
    /\ UNCHANGED <<networkVersion, selectedAccount, handlers, connecting, chain>>

\* the transaction is mined and tx.wait() resolves with its receipt
Mined(k, status) ==
    /\ transfers[k].pc = "wait"
    /\ LET tx == transfers[k] IN
       IF status = 0
       THEN /\ Becomes(transferCatch(St, TransactionFailed))
            /\ Settled(k, "failed")
            /\ chain' = chain
       ELSE /\ chain[tx.addr] >= tx.amount
            /\ chain' = [chain EXCEPT ![tx.addr] = @ - tx.amount, ![tx.to] = @ + tx.amount]
            /\ transfers' = [transfers EXCEPT ![k] =
                    [@ EXCEPT !.pc = "refresh", !.to = UNDEF, !.addr = myAddress]]
            /\ Did("other")
            /\ UNCHANGED comp
    /\ UNCHANGED <<networkVersion, selectedAccount, handlers, connecting>>

\* tx.wait() rejects
WaitFail(k, error) ==
    /\ transfers[k].pc = "wait"
    /\ Becomes(transferCatch(St, error))
    /\ Settled(k, IF ErrorCode(error) = ERROR_CODE_TX_REJECTED_BY_USER
                  THEN "waitRejected" ELSE "waitFailed")
    /\ UNCHANGED <<networkVersion, selectedAccount, handlers, connecting, chain>>

\* the balanceOf of the awaited updateBalance answers
RefreshReturn(k) ==
    /\ transfers[k].pc = "refresh"
    /\ Becomes(transferFinally(setBalance(St, BigNumber(chain[transfers[k].addr]))))
    /\ Settled(k, "confirmed")
    /\ UNCHANGED <<networkVersion, selectedAccount, handlers, connecting, chain>>

\* the balanceOf of the awaited updateBalance rejects
RefreshFail(k, error) ==
    /\ transfers[k].pc = "refresh"
    /\ Becomes(transferCatch(St, error))
    /\ Settled(k, IF ErrorCode(error) = ERROR_CODE_TX_REJECTED_BY_USER
                  THEN "refreshRejected" ELSE "refreshFailed")
    /\ UNCHANGED <<networkVersion, selectedAccount, handlers, connecting, chain>>

(* ---- dismissing ---- *)
DismissTransactionError ==
    /\ mounted /\ view = "Dapp" /\ Truthy(transactionError)
    /\ Becomes(dismissTransactionError(St))
    /\ Did("dismissTransactionError")
    /\ UNCHANGED env

DismissNetworkError ==
    /\ mounted /\ view = "ConnectWallet" /\ Truthy(networkError)
    /\ Becomes(dismissNetworkError(St))
    /\ Did("dismissNetworkError")
    /\ UNCHANGED env

\* the callbacks of the session and the poller that both specifications take
Session(max) ==
    \/ ConnectWalletCall(max)
    \/ \E a \in Addresses : EnableResolve(a)
    \/ \E a \in Addresses \cup {UNDEF} : AccountsChanged(a)
    \/ \E nv \in NetworkIds : NetworkChanged(nv)
    \/ \E t \in TimerIds : Tick(t)
    \/ \E a \in Addresses : PollReadReturn(a)
    \/ TokenDataReturn

Next ==
    \/ Teardown
    \/ Session(MaxConnects)
    \/ EnableReject
    \/ \E a \in Addresses : PollReadFail(a)
    \/ TokenDataFail
    \/ DismissNetworkError

Spec == Init /\ [][Next]_vars

\* the session with transfers
NextTx ==
    \/ Session(MaxTxConnects)
    \/ DismissTransactionError
    \/ \E to \in Recipients, amount \in 1..MaxAmount : TransferTokens(to, amount)
    \/ \E k \in TxIds : SubmitOk(k)
    \/ \E k \in TxIds, error \in RejectErrors : SubmitFail(k, error)
    \/ \E k \in TxIds, status \in {0, 1} : Mined(k, status)
    \/ \E k \in TxIds, error \in RejectErrors : WaitFail(k, error)
    \/ \E k \in TxIds : RefreshReturn(k)
    \/ \E k \in TxIds, error \in RejectErrors : RefreshFail(k, error)

SpecTx == Init /\ [][NextTx]_vars

\* the session with transfers and both error banners: a connect() on another
\* network leaves the network error set, and it can be dismissed
NextUi == NextTx \/ DismissNetworkError

SpecUi == Init /\ [][NextUi]_vars

(* ---- properties ---- *)
Unset(v) == v \in {UNDEF, NULL}
\* the session status the render gate selects on, on the accepted network
SessionConnected == Truthy(myAddress) /\ checkNetwork(networkVersion)
SettledAs(outcomes) == last.op = "settled" /\ last.outcome \in outcomes

\* C1: at most one balance-poll timer is alive, and it is the one whose
\* handle pollDataInterval holds (no timer is leaked).
C1_AtMostOneTimer ==
    Cardinality(timers) <= 1 /\ timers \subseteq {pollDataInterval}

\* C2: after a network-change event has been handled, the poller is stopped
\* and the session is as it was before the first connect (null and undefined
\* both count as unset).
C2_NetworkChangeRestoresInitial ==
    (mounted /\ last.op = "networkChanged") =>
        /\ timers = {} /\ pollDataInterval = NoTimer
        /\ Unset(myAddress) /\ Unset(tokenData) /\ ~IsNumber(balance)
        /\ Unset(txBeingSent) /\ Unset(transactionError) /\ Unset(networkError)

\* C3: after an account-change event without an address has been handled, the
\* poller is stopped, the connected address is unset, the connect view is
\* shown, and token data, balance and both errors are cleared.
C3_AccountRemovalDisconnects ==
    (mounted /\ last.op = "accountRemoved") =>
        /\ timers = {} /\ pollDataInterval = NoTimer
        /\ Unset(myAddress) /\ view = "ConnectWallet"
        /\ Unset(tokenData) /\ ~IsNumber(balance)
        /\ Unset(transactionError) /\ Unset(networkError)

\* C4: when a transfer whose submission was rejected by the user (code 4001)
\* settles, transactionError and the pending hash are unset.
C4_RejectionLeavesNoError ==
    (mounted /\ SettledAs({"rejected"})) =>
        Unset(transactionError) /\ Unset(txBeingSent)

\* C5: the step in which a transfer mined with status 0 settles sets
\* transactionError to "Transaction failed", clears the pending hash, and
\* issues no balance read (the transfer was awaiting its receipt, the balance
\* and the reads in flight are untouched).
C5_FailedReceipt ==
    [][(last'.op = "settled" /\ last'.outcome = "failed" /\ last' # last /\ mounted) =>
          /\ transactionError' = TransactionFailed
          /\ txBeingSent' = NULL
          /\ transfers[last'.k].pc = "wait" /\ transfers'[last'.k].pc = "idle"
          /\ \A j \in TxIds : transfers'[j].pc = "refresh" => transfers[j].pc = "refresh"
          /\ pollReads' = pollReads /\ balance' = balance]_vars

C5_Witness ==
    SettledAs({"failed"}) /\ transactionError = TransactionFailed /\ txBeingSent = NULL

C7_MismatchLeavesSessionUntouched ==
    [][(last'.op = "networkMismatch" /\ mounted) =>
          /\ networkError' = NetworkErrorMessage
          /\ UNCHANGED <<token, pollDataInterval, timers, handlers, myAddress,
                         tokenReads, pollReads, tokenData, balance>>]_vars

C7_Witness ==
    /\ last.op = "networkMismatch" /\ networkError = NetworkErrorMessage
    /\ token = UNDEF /\ timers = {} /\ handlers = 0 /\ myAddress = UNDEF
    /\ view = "ConnectWallet"

C9_PendingExcludesError ==
    ~(Truthy(txBeingSent) /\ Truthy(transactionError))

C11_NoReentryWithoutConnect ==
    [][(last.op = "networkChanged" /\ last'.op # "connected") =>
          pollDataInterval' = NoTimer /\ timers' \subseteq timers]_vars

\* C12: the step in which a balance read of the poller fails leaves the
\* interval timer, its handle, the connected address and the contract client
\* as they were; after it a live timer can still fire and issue a read for the
\* connected address; and every read of the poller that answers sets the
\* balance to what it returned.
C12_FailedReadKeepsPolling ==
    /\ [][last'.op = "pollReadFailed" =>
            UNCHANGED <<timers, pollDataInterval, myAddress, token, balance>>]_vars
    /\ [](last.op = "pollReadFailed" /\ timers # {} /\ Truthy(myAddress)
            /\ pollReads[myAddress] < MaxInFlight
          => ENABLED (\E t \in TimerIds : Tick(t)))
    /\ [][\A a \in Addresses :
            (pollReads'[a] < pollReads[a] /\ last'.op # "pollReadFailed" /\ mounted)
                => balance' = BigNumber(chain[a])]_vars

C12_Witness ==
    /\ last.op = "pollReadFailed" /\ timers # {} /\ pollDataInterval \in timers
    /\ Truthy(myAddress) /\ pollReads[myAddress] = 0

\* C13: after a balance read of the poller has failed, the error state shown
\* to the user records the failure (one of the two error fields is set).
C13_FailedReadIsSurfaced ==
    (mounted /\ last.op = "pollReadFailed") =>
        Truthy(transactionError) \/ Truthy(networkError)

\* C14: stopPollingData is idempotent: in every state the component reaches,
\* calling it while no timer handle is held leaves the whole state as it is,
\* and calling it twice gives the state that calling it once gives.
C14_StopIsIdempotent ==
    /\ pollDataInterval = NoTimer => stopPollingData(St) = St
    /\ stopPollingData(stopPollingData(St)) = stopPollingData(St)

\* both registered networkChanged handlers ran: the second stop found the
\* poller already stopped
C14_Witness ==
    last.op = "networkChanged" /\ handlers = 2 /\ pollDataInterval = NoTimer

\* C15: the step that dismisses the transaction error sets transactionError to
\* null and leaves the network error, the balance, the token data, the
\* connected address, the pending hash, the contract client, the poller and
\* the reads and transfers in flight as they were; the step that dismisses the
\* network error sets networkError to null and leaves every other one of them
\* as it was.  The call of dismissTransactionError with which transferTokens
\* starts has the same effect on the component.
C15_DismissChangesOnlyItsError ==
    [][/\ (\/ last'.op = "dismissTransactionError"
           \/ \E k \in TxIds : transfers[k].pc = "idle" /\ transfers'[k].pc = "submit") =>
            /\ transactionError' = NULL
            /\ UNCHANGED <<networkError, balance, tokenData, myAddress, txBeingSent, token,
                           pollDataInterval, timers, tokenReads, pollReads, mounted>>
       /\ last'.op = "dismissTransactionError" => UNCHANGED env
       /\ last'.op = "dismissNetworkError" =>
            /\ networkError' = NULL
            /\ UNCHANGED <<transactionError, balance, tokenData, myAddress, txBeingSent, token,
                           pollDataInterval, timers, tokenReads, pollReads, mounted, env>>]_vars

\* the transaction error was dismissed while a hash was pending and the
\* network error of an earlier connect() was still shown
C15_Witness ==
    /\ last.op = "dismissTransactionError" /\ transactionError = NULL
    /\ Truthy(txBeingSent) /\ networkError = NetworkErrorMessage

\* C16: the teardown step stops the poller (no interval timer is alive after
\* it and the handle is cleared) and leaves the connected address, the token
\* data, the balance, the pending hash, both error fields, the contract client
\* and the reads in flight as they were.
C16_TeardownOnlyStopsPoller ==
    [][last'.op = "teardown" =>
          /\ timers' = {} /\ pollDataInterval' = NoTimer
          /\ UNCHANGED <<myAddress, tokenData, balance, txBeingSent, transactionError,
                         networkError, token, tokenReads, pollReads, env>>]_vars

\* C17: while the balance shown is the one read for the connected address, the
\* answer to a read of the poller that was issued for another (earlier)
\* address does not replace it.  (The addresses hold different balances, so
\* the balance shown tells for which address it was read.)
C17_StaleReadDoesNotOverwrite ==
    [][\A a \in Addresses :
          (/\ mounted /\ Truthy(myAddress) /\ a # myAddress
           /\ chain[a] # chain[myAddress]
           /\ balance = BigNumber(chain[myAddress])
           /\ pollReads'[a] < pollReads[a])
          => balance' = balance]_vars

\* C18: the step in which an account-change event with a present address is
\* handled while the poller runs makes the new address the connected one,
\* leaves exactly one interval timer alive (the one the handle names), and
\* issues a balance read for the new address at once; and every step that
\* issues a balance read of the poller issues it for the address that is
\* connected after the step.
C18_AccountSwitchRestartsPoller ==
    [][/\ (last'.op = "accountSwitched" /\ pollDataInterval # NoTimer /\ Truthy(myAddress)) =>
            /\ myAddress' = selectedAccount'
            /\ Cardinality(timers') = 1 /\ pollDataInterval' \in timers'
            /\ pollReads'[myAddress'] > pollReads[myAddress']
       /\ \A a \in Addresses : pollReads'[a] > pollReads[a] => a = myAddress']_vars

\* C19: the step in which a transfer settles with an exception of the
\* submission, of the wait for the receipt or of the follow-up balance read
\* sets the pending hash to null; it sets transactionError to the exception
\* when its code is not 4001 and leaves transactionError as it was when its
\* code is 4001 (the error thrown for a receipt of status 0 has no code).  A
\* failed follow-up read is the exception of a transfer whose receipt had
\* status 1.
C19_EveryStepReportsButRejection ==
    [][(/\ last'.op = "settled" /\ mounted
        /\ transfers[last'.k].pc # "idle" /\ transfers'[last'.k].pc = "idle") =>
          /\ txBeingSent' = NULL
          /\ last'.outcome \in {"submitFailed", "waitFailed", "refreshFailed"} =>
                transactionError' = RpcError
          /\ last'.outcome = "failed" => transactionError' = TransactionFailed
          /\ last'.outcome \in {"rejected", "waitRejected", "refreshRejected"} =>
                transactionError' = transactionError
          /\ last'.outcome \in {"refreshFailed", "refreshRejected"} =>
                transfers[last'.k].pc = "refresh"]_vars

\* a transfer confirmed with status 1 ended with the error of its follow-up read
C19_Witness ==
    SettledAs({"refreshFailed"}) /\ transactionError = RpcError /\ txBeingSent = NULL

\* C20: in the step that follows a network-change or account-removal reset of
\* the mounted component, unless that step is a connect(), transactionError,
\* the pending hash and the balance stay unset: work that was in flight when
\* the reset happened does not write them.
C20_ResetIsNotUndone ==
    [][(mounted /\ last.op \in {"networkChanged", "accountRemoved"} /\ last'.op # "connected") =>
          Unset(transactionError') /\ Unset(txBeingSent') /\ ~IsNumber(balance')]_vars
====
